---- MODULE Spec2Model ----
(***************************************************************************)
(* WaterColorAnimator (src/src/main.ts, variance-propagating revision,     *)
(* lines 219-419): createPolygon, deformPolygon, iterativelyDeformPolygon, *)
(* gaussianRandom, drawPolygon and the start()/draw()/setTimeout loop.     *)
(*                                                                         *)
(* Numbers.  A JavaScript number is a record: a finite value in            *)
(* thousandths (k = "num"), an infinity with its sign (k = "inf") or NaN   *)
(* (k = "nan").  Products and quotients are cut to the thousandth towards  *)
(* zero, so a rounding never changes a sign.                               *)
(*                                                                         *)
(* Random source.  Math.random() is a generator with hidden state: seed is *)
(* that state, RandomValue(seed) the value a call returns (one of          *)
(* 0, 0.3, 0.5, 0.8) and NextSeed(seed) the state after the call.          *)
(***************************************************************************)
EXTENDS Integers, Sequences, FiniteSets, TLC

VARIABLES
  seed,          \* state of the process-wide Math.random generator
  canvas,        \* this.canvas: "null", "element" (no getContext) or "canvas"
  context,       \* this.context: TRUE when a 2d context was obtained
  rect,          \* this.rect: undefined or [width, height]
  calls,         \* calls received by the drawing surface in the latest drawPolygon
  pc,            \* script position: "main", "waiting" (timeout pending), "crashed"
  radius,        \* start(): radius captured by draw()
  color,         \* start(): color captured by draw()
  poly,          \* start(): result of createPolygon
  deformedPoly,  \* start(): base deformed polygon captured by draw()
  iteration,     \* start(): frame counter captured by draw()
  call,          \* unit harness: name of the method applied last
  args,          \* unit harness: its arguments (and the seed it started from)
  ret            \* unit harness: its return value

vars == <<seed, canvas, context, rect, calls, pc, radius, color, poly,
          deformedPoly, iteration, call, args, ret>>

driverVars == <<pc, radius, color, poly, deformedPoly, iteration>>
harnessVars == <<call, args, ret>>

-----------------------------------------------------------------------------
(* Bounds *)

\* draw() passes 5 iterations (main.ts:400); the model runs this many.
DrawIterations == 1
\* The harness deforms polygons of at most this many points.
MaxPoints == 5
\* The harness calls iterativelyDeformPolygon with iterations in -1..MaxIterations.
MaxIterations == 2

-----------------------------------------------------------------------------
(* JavaScript numbers *)

Num(v) == [k |-> "num", v |-> v]
NaN == [k |-> "nan", v |-> 0]
Inf(s) == [k |-> "inf", v |-> s]
Int2Num(n) == Num(n * 1000)
Zero == Num(0)
undefined == [k |-> "undefined"]

IsFinite(a) == a.k = "num"
Sign(a) == IF a.v > 0 THEN 1 ELSE IF a.v < 0 THEN -1 ELSE 0
Quot(n, d) == IF n >= 0 THEN n \div d ELSE -((-n) \div d)

\* a + b
Add(a, b) ==
  IF a.k = "nan" \/ b.k = "nan" THEN NaN
  ELSE IF a.k = "inf" THEN (IF b.k = "inf" /\ b.v # a.v THEN NaN ELSE a)
  ELSE IF b.k = "inf" THEN b
  ELSE Num(a.v + b.v)

\* a * b
Mul(a, b) ==
  IF a.k = "nan" \/ b.k = "nan" THEN NaN
  ELSE IF a.k = "inf" \/ b.k = "inf"
       THEN (IF Sign(a) * Sign(b) = 0 THEN NaN ELSE Inf(Sign(a) * Sign(b)))
  ELSE Num(Quot(a.v * b.v, 1000))

\* a / n for a positive integer literal n
Div(a, n) == IF a.k = "num" THEN Num(Quot(a.v, n)) ELSE a

\* a < b
Lt(a, b) ==
  /\ a.k # "nan"
  /\ b.k # "nan"
  /\ IF a.k = "inf" /\ b.k = "inf" THEN a.v < b.v
     ELSE IF a.k = "inf" THEN a.v < 0
     ELSE IF b.k = "inf" THEN b.v > 0
     ELSE a.v < b.v

\* !a for a number: 0 and NaN are falsy
Falsy(a) == a.k = "nan" \/ (a.k = "num" /\ a.v = 0)

\* Math.round: nearest integer, halves towards +Infinity
MathRound(a) ==
  IF a.k # "num" THEN a
  ELSE LET n == a.v + 500
       IN Num(1000 * (IF n >= 0 THEN n \div 1000 ELSE -(((-n) + 999) \div 1000)))

\* Math.log on the values Math.random returns
MathLog(a) ==
  CASE a.v = 0 -> Inf(-1)
    [] a.v = 300 -> Num(-1204)
    [] a.v = 500 -> Num(-693)
    [] a.v = 800 -> Num(-223)

\* Math.sqrt on the values -2 * Math.log(u1) takes
MathSqrt(a) ==
  IF a.k = "inf" THEN a
  ELSE CASE a.v = 2408 -> Num(1552)
         [] a.v = 1386 -> Num(1177)
         [] a.v = 446 -> Num(668)

\* Math.cos(2.0 * Math.PI * u2) on the values Math.random returns
Cos2Pi(u) ==
  CASE u.v = 0 -> Num(1000)
    [] u.v = 300 -> Num(-309)
    [] u.v = 500 -> Num(-1000)
    [] u.v = 800 -> Num(309)

\* Math.PI * 2, in thousandths of a radian
TwoPi == 6283

\* Math.cos of an angle base_angle * i, in thousandths of a radian
MathCos(angle) ==
  CASE angle = 0 -> Num(1000)
    [] angle = 785 -> Num(707)
    [] angle = 1256 -> Num(309)
    [] angle = 1570 -> Num(0)
    [] angle = 2094 -> Num(-500)
    [] angle = 2355 -> Num(-707)
    [] angle = 2512 -> Num(-809)
    [] angle = 3140 -> Num(-1000)
    [] angle = 3768 -> Num(-809)
    [] angle = 3925 -> Num(-707)
    [] angle = 4188 -> Num(-500)
    [] angle = 4710 -> Num(0)
    [] angle = 5024 -> Num(309)
    [] angle = 5495 -> Num(707)

\* Math.sin of an angle base_angle * i, in thousandths of a radian
MathSin(angle) ==
  CASE angle = 0 -> Num(0)
    [] angle = 785 -> Num(707)
    [] angle = 1256 -> Num(951)
    [] angle = 1570 -> Num(1000)
    [] angle = 2094 -> Num(866)
    [] angle = 2355 -> Num(707)
    [] angle = 2512 -> Num(588)
    [] angle = 3140 -> Num(0)
    [] angle = 3768 -> Num(-588)
    [] angle = 3925 -> Num(-707)
    [] angle = 4188 -> Num(-866)
    [] angle = 4710 -> Num(-1000)
    [] angle = 5024 -> Num(-951)
    [] angle = 5495 -> Num(-707)

-----------------------------------------------------------------------------
(* Math.random *)

Seeds == 0 .. 15

\* generator state after one Math.random() call
NextSeed(s) == (5 * s + 3) % 16

\* value returned by Math.random() in state s: 0, 0.3, 0.5 or 0.8
RandomValue(s) == Num(<<0, 300, 500, 800>>[(s \div 4) + 1])

\* generator state after n Math.random() calls (the generator has period 16)
RECURSIVE Advance(_, _)
Advance(s, n) == IF n % 16 = 0 THEN s ELSE NextSeed(Advance(s, (n % 16) - 1))

-----------------------------------------------------------------------------
(* Array.push over a loop: the elements pushed[lo], ..., pushed[hi] in order *)

RECURSIVE Pushes(_, _, _)
Pushes(pushed, lo, hi) ==
  IF lo > hi THEN <<>>
  ELSE IF lo = hi THEN pushed[lo]
  ELSE LET mid == (lo + hi) \div 2
       IN Pushes(pushed, lo, mid) \o Pushes(pushed, mid + 1, hi)

-----------------------------------------------------------------------------
(* gaussianRandom(mean, sd): value returned and generator state afterwards *)

gaussianRandom(mean, sd, s) ==
  LET u1 == RandomValue(s)
      s1 == NextSeed(s)
      u2 == RandomValue(s1)
      z0 == Mul(MathSqrt(Mul(Num(-2000), MathLog(u1))), Cos2Pi(u2))
  IN [value |-> Add(Mul(z0, sd), mean), seed |-> NextSeed(s1)]

-----------------------------------------------------------------------------
(* createPolygon(coordinates, radius, facets) *)

\* a createPolygon that keeps coordinates that go off the edge
clampToEdge_never(v) == v

\* "if the coordinate goes off the edge, just keep it on the edge"
clampToEdge(v) == IF Lt(v, Zero) THEN Zero ELSE v

\* the for loop of createPolygon from index i on; points is the array so far
RECURSIVE createLoop(_, _, _, _, _, _)
createLoop(coordinates, r, facets, i, points, s) ==
  IF ~(i < facets) THEN [value |-> points, seed |-> s]
  ELSE LET base_angle == Quot(TwoPi, facets)
           angle == base_angle * i
       IN IF angle < 0 \/ angle > TwoPi
          THEN createLoop(coordinates, r, facets, i + 1, points, s)
          ELSE LET x == clampToEdge(MathRound(Add(coordinates.x, Mul(r, MathCos(angle)))))
                   y0 == MathRound(Add(coordinates.y, Mul(r, MathSin(angle))))
                   variance == Mul(RandomValue(s), Div(r, 3))
                   y == clampToEdge(y0)
               IN createLoop(coordinates, r, facets, i + 1,
                             Append(points, [x |-> x, y |-> y, variance |-> variance]),
                             NextSeed(s))

\* a createPolygon that does not test !radius
createPolygon_radiusUnchecked(coordinates, r, facets, s) ==
  IF coordinates = undefined \/ facets = 0
  THEN [value |-> <<>>, seed |-> s]
  ELSE createLoop(coordinates, r, facets, 0, <<>>, s)

createPolygon(coordinates, r, facets, s) ==
  IF coordinates = undefined \/ Falsy(r) \/ facets = 0
  THEN [value |-> <<>>, seed |-> s]
  ELSE createLoop(coordinates, r, facets, 0, <<>>, s)

-----------------------------------------------------------------------------
(* deformPolygon(polygon, radius) *)

\* iteration i of the for loop of deformPolygon, entered with generator state
\* s: the three points it pushes.  Array elements are objects, so the
\* !pointA / !pointC tests never skip.
deformEdge(polygon, r, i, s) ==
  LET A == polygon[i + 1]
      n == (i + 1) % Len(polygon)
      C == polygon[n + 1]
      variance == gaussianRandom(Div(Add(A.variance, C.variance), 2), Div(r, 20), s)
      Bx == gaussianRandom(Div(Add(A.x, C.x), 2), variance.value, variance.seed)
      By == gaussianRandom(Div(Add(A.y, C.y), 2), variance.value, Bx.seed)
      B == [x |-> Bx.value, y |-> By.value, variance |-> variance.value]
  IN <<A, B, C>>

\* Every iteration calls gaussianRandom three times, Math.random six times, so
\* iteration i is entered in state Advance(s, 6 * i).
deformPolygon(polygon, r, s) ==
  LET pushed == [i \in 0 .. Len(polygon) - 1 |-> deformEdge(polygon, r, i, Advance(s, 6 * i))]
  IN [value |-> Pushes(pushed, 0, Len(polygon) - 1), seed |-> Advance(s, 6 * Len(polygon))]

-----------------------------------------------------------------------------
(* iterativelyDeformPolygon(polygon, radius, iterations) *)

\* the for loop of iterativelyDeformPolygon from index i on
RECURSIVE iterateLoop(_, _, _, _, _)
iterateLoop(deformedPolygon, r, iterations, i, s) ==
  IF ~(i < iterations) THEN [value |-> deformedPolygon, seed |-> s]
  ELSE LET d == deformPolygon(deformedPolygon, r, s)
       IN iterateLoop(d.value, r, iterations, i + 1, d.seed)

\* an iterativelyDeformPolygon whose loop runs while i <= iterations
iterativelyDeformPolygon_oneMore(polygon, r, iterations, s) ==
  iterateLoop(polygon, r, iterations + 1, 0, s)

iterativelyDeformPolygon(polygon, r, iterations, s) ==
  iterateLoop(polygon, r, iterations, 0, s)

-----------------------------------------------------------------------------
(* drawPolygon(polygon, color): the calls the drawing surface receives *)

\* the lineTo loop of drawPolygon from index i on: one call per remaining point
lineLoop(polygon, i) ==
  Pushes([j \in i .. Len(polygon) - 1 |->
            <<[op |-> "lineTo", x |-> polygon[j + 1].x, y |-> polygon[j + 1].y]>>],
         i, Len(polygon) - 1)

\* a drawPolygon that fills before it closes the path
drawPolygon_fillBeforeClose(polygon, c) ==
  IF canvas = "null" \/ ~context \/ Len(polygon) = 0 THEN <<>>
  ELSE <<[op |-> "beginPath"],
         [op |-> "moveTo", x |-> polygon[1].x, y |-> polygon[1].y]>>
       \o lineLoop(polygon, 1)
       \o <<[op |-> "fillStyle", color |-> c], [op |-> "fill"], [op |-> "closePath"]>>

drawPolygon(polygon, c) ==
  IF canvas = "null" \/ ~context \/ Len(polygon) = 0 THEN <<>>
  ELSE <<[op |-> "beginPath"],
         [op |-> "moveTo", x |-> polygon[1].x, y |-> polygon[1].y]>>
       \o lineLoop(polygon, 1)
       \o <<[op |-> "closePath"], [op |-> "fillStyle", color |-> c], [op |-> "fill"]>>

-----------------------------------------------------------------------------
(* The script: new WaterColorAnimator("canvas"); animator.start() *)

\* const numberOfLayers = 85
numberOfLayers == 85

\* sizes getBoundingClientRect() can report
RectInputs == {[width |-> Int2Num(0), height |-> Int2Num(0)],
               [width |-> Int2Num(300), height |-> Int2Num(150)]}

\* State after the constructor: getElementById found nothing ("null"), an
\* element without getContext ("element"), or a canvas whose getContext("2d")
\* returned a context or null.
Init ==
  /\ seed \in Seeds
  /\ canvas \in {"null", "element", "canvas"}
  /\ context \in (IF canvas = "canvas" THEN BOOLEAN ELSE {FALSE})
  /\ rect \in (IF canvas = "canvas" THEN RectInputs ELSE {undefined})
  /\ calls = <<>>
  /\ pc = "main"
  /\ radius = Zero
  /\ color = undefined
  /\ poly = <<>>
  /\ deformedPoly = <<>>
  /\ iteration = 0
  /\ call = "none"
  /\ args = undefined
  /\ ret = <<>>

\* draw(): one frame, then setTimeout
draw(dp, r, c, it, s) ==
  \E layer \in {iterativelyDeformPolygon(dp, r, DrawIterations, s)} :
     /\ iteration' = it + 1
     /\ calls' = drawPolygon(layer.value, c)
     /\ seed' = layer.seed
     /\ pc' = "waiting"

\* start(): reading this.rect!.width of an undefined rect throws, after two
\* Math.random() calls, and nothing is scheduled.
start ==
  LET r == MathRound(Mul(RandomValue(seed), Int2Num(500)))
      s1 == NextSeed(seed)
      f0 == MathRound(Mul(RandomValue(s1), Int2Num(10)))
      facets == IF Lt(f0, Int2Num(5)) THEN Int2Num(5) ELSE f0
      s2 == NextSeed(s1)
  IN IF rect = undefined
     THEN /\ pc' = "crashed"
          /\ seed' = s2
          /\ UNCHANGED <<calls, radius, color, poly, deformedPoly, iteration>>
     ELSE LET x == MathRound(Mul(RandomValue(s2),
                       IF Falsy(rect.width) THEN Int2Num(100) ELSE rect.width))
              s3 == NextSeed(s2)
              y == MathRound(Mul(RandomValue(s3),
                       IF Falsy(rect.height) THEN Int2Num(100) ELSE rect.height))
              s4 == NextSeed(s3)
              red == MathRound(Mul(RandomValue(s4), Int2Num(256)))
              s5 == NextSeed(s4)
              green == MathRound(Mul(RandomValue(s5), Int2Num(256)))
              s6 == NextSeed(s5)
              blue == MathRound(Mul(RandomValue(s6), Int2Num(256)))
              s7 == NextSeed(s6)
              \* `rgba(${r},${g},${b},0.025)`, kept as its four components
              c == [r |-> red, g |-> green, b |-> blue, a |-> Num(25)]
          IN \E p \in {createPolygon([x |-> x, y |-> y], r, facets.v \div 1000, s7)} :
             \E dp \in {deformPolygon(p.value, r, p.seed)} :
             /\ radius' = r
             /\ color' = c
             /\ poly' = p.value
             /\ deformedPoly' = dp.value
             /\ draw(dp.value, r, c, 0, dp.seed)

\* animator.start() at the end of the script
Start ==
  /\ pc = "main"
  /\ start
  /\ UNCHANGED <<canvas, context, rect, call, args, ret>>

\* the setTimeout callback.  clearTimeout(timer) names the timeout that has
\* just fired and changes nothing.
Timeout ==
  /\ pc = "waiting"
  /\ IF iteration <= numberOfLayers
     THEN /\ draw(deformedPoly, radius, color, iteration, seed)
          /\ UNCHANGED <<radius, color, poly, deformedPoly>>
     ELSE start
  /\ UNCHANGED <<canvas, context, rect, call, args, ret>>

Next == Start \/ Timeout

Spec == Init /\ [][Next]_vars

-----------------------------------------------------------------------------
(* The methods applied one at a time to bounded arguments.  A polygon is   *)
(* always the result of createPolygon or of deform passes over one.        *)

CenterInputs == {undefined,
                 [x |-> Int2Num(0), y |-> Int2Num(0)],
                 [x |-> Int2Num(100), y |-> Int2Num(100)]}
RadiusInputs == {Int2Num(0), Int2Num(150)}
\* createPolygon is also given a NaN radius, which is falsy like 0
CreateRadiusInputs == RadiusInputs \cup {NaN}
FacetInputs == {0, 1, 3, 4, 5, 8}
MeanInputs == {Int2Num(0), Int2Num(5)}
SdInputs == {Num(0), Num(1500), Num(-1500)}

ReturnedPolygon == call \in {"createPolygon", "deformPolygon", "iterativelyDeformPolygon"}

CallCreatePolygon ==
  /\ call = "none"
  /\ \E c \in CenterInputs, r \in CreateRadiusInputs, f \in FacetInputs :
       LET res == createPolygon(c, r, f, seed)
       IN /\ call' = "createPolygon"
          /\ args' = [coordinates |-> c, radius |-> r, facets |-> f, seed |-> seed]
          /\ ret' = res.value
          /\ seed' = res.seed
          /\ UNCHANGED <<canvas, context, rect, calls, driverVars>>

CallDeformPolygon ==
  /\ ReturnedPolygon
  /\ Len(ret) <= MaxPoints
  /\ \E r \in RadiusInputs :
       LET res == deformPolygon(ret, r, seed)
       IN /\ call' = "deformPolygon"
          /\ args' = [polygon |-> ret, radius |-> r, seed |-> seed]
          /\ ret' = res.value
          /\ seed' = res.seed
          /\ UNCHANGED <<canvas, context, rect, calls, driverVars>>

CallIterativelyDeformPolygon ==
  /\ ReturnedPolygon
  /\ Len(ret) <= MaxPoints
  /\ \E r \in RadiusInputs, n \in -1 .. MaxIterations :
       LET res == iterativelyDeformPolygon(ret, r, n, seed)
       IN /\ call' = "iterativelyDeformPolygon"
          /\ args' = [polygon |-> ret, radius |-> r, iterations |-> n, seed |-> seed]
          /\ ret' = res.value
          /\ seed' = res.seed
          /\ UNCHANGED <<canvas, context, rect, calls, driverVars>>

CallGaussianRandom ==
  /\ call = "none"
  /\ \E mean \in MeanInputs, sd \in SdInputs :
       LET res == gaussianRandom(mean, sd, seed)
       IN /\ call' = "gaussianRandom"
          /\ args' = [mean |-> mean, sd |-> sd, seed |-> seed]
          /\ ret' = res.value
          /\ seed' = res.seed
          /\ UNCHANGED <<canvas, context, rect, calls, driverVars>>

CallDrawPolygon ==
  /\ ReturnedPolygon
  /\ \E c \in {[r |-> Int2Num(77), g |-> Int2Num(128), b |-> Int2Num(205), a |-> Num(25)]} :
       /\ call' = "drawPolygon"
       /\ args' = [polygon |-> ret, color |-> c]
       /\ calls' = drawPolygon(ret, c)
       /\ ret' = undefined
       /\ UNCHANGED <<seed, canvas, context, rect, driverVars>>

UnitNext ==
  \/ CallCreatePolygon
  \/ CallDeformPolygon
  \/ CallIterativelyDeformPolygon
  \/ CallGaussianRandom
  \/ CallDrawPolygon

\* the constructor's outcomes, with one size of canvas
UnitInit == Init /\ rect \in {undefined, [width |-> Int2Num(300), height |-> Int2Num(150)]}

UnitSpec == UnitInit /\ [][UnitNext]_vars

-----------------------------------------------------------------------------
(* Properties *)

\* a >= 0 (false for NaN)
Ge0(a) == a.k # "nan" /\ ~Lt(a, Zero)

\* n deformPolygon passes in sequence, each over the whole output of the one
\* before, the generator continuing from where the previous pass left it
RECURSIVE DeformTimes(_, _, _, _)
DeformTimes(polygon, r, n, s) ==
  IF n <= 0 THEN [value |-> polygon, seed |-> s]
  ELSE LET before == DeformTimes(polygon, r, n - 1, s)
       IN deformPolygon(before.value, r, before.seed)

\* C1: deformPolygon of a non-empty polygon P returns 2 * len(P) points, and
\* iterativelyDeformPolygon(P, r, n) returns len(P) * 2^n points for n >= 0.
C1_LengthDoubles ==
  /\ (call = "deformPolygon" /\ Len(args.polygon) > 0)
        => Len(ret) = 2 * Len(args.polygon)
  /\ (call = "iterativelyDeformPolygon" /\ Len(args.polygon) > 0 /\ args.iterations >= 0)
        => Len(ret) = Len(args.polygon) * 2^(args.iterations)

\* C2: deformPolygon of an empty polygon or of a polygon with exactly one
\* point returns an empty polygon.
C2_NoEdgeNoOutput ==
  (call = "deformPolygon" /\ Len(args.polygon) <= 1) => ret = <<>>

\* C3: createPolygon returns no point when center is missing or radius or
\* facets is zero (or radius is NaN), and exactly facets points for a present
\* center, radius > 0 and facets >= 3.
C3_CreatePolygonLength ==
  call = "createPolygon" =>
    /\ (args.coordinates = undefined \/ args.radius \in {Zero, NaN} \/ args.facets = 0)
          => Len(ret) = 0
    /\ (args.coordinates # undefined /\ Lt(Zero, args.radius) /\ args.facets >= 3)
          => Len(ret) = args.facets

\* C3 witness: createPolygon was called with a center, a positive radius and
\* five facets, and returned five points.
C3_Witness ==
  /\ call = "createPolygon"
  /\ args.coordinates # undefined
  /\ Lt(Zero, args.radius)
  /\ args.facets = 5
  /\ Len(ret) = 5

\* C4 as stated: every point of every polygon produced by createPolygon and
\* any number of deformPolygon passes has x >= 0 and y >= 0.
C4_AllPointsNonNegative ==
  ReturnedPolygon =>
    \A i \in 1 .. Len(ret) : Ge0(ret[i].x) /\ Ge0(ret[i].y)

\* C4 amended: every point createPolygon returns has x >= 0 and y >= 0, and
\* the points deformPolygon carries over from its input (A and C of every
\* edge) are non-negative whenever they were in the input; the midpoints it
\* inserts are not clamped.
C4_ClampedAtCreation ==
  /\ call = "createPolygon" =>
       \A i \in 1 .. Len(ret) : Ge0(ret[i].x) /\ Ge0(ret[i].y)
  /\ call = "deformPolygon" =>
       \A i \in 1 .. Len(args.polygon) :
         LET a == args.polygon[i]
             c == args.polygon[(i % Len(args.polygon)) + 1]
         IN /\ (Ge0(a.x) /\ Ge0(a.y)) => (Ge0(ret[3 * i - 2].x) /\ Ge0(ret[3 * i - 2].y))
            /\ (Ge0(c.x) /\ Ge0(c.y)) => (Ge0(ret[3 * i].x) /\ Ge0(ret[3 * i].y))

\* C4 witness: createPolygon around the origin returned a point that the clamp
\* moved to (0, 0).
C4_Witness ==
  /\ call = "createPolygon"
  /\ Lt(Zero, args.radius)
  /\ \E i \in 1 .. Len(ret) : ret[i].x = Zero /\ ret[i].y = Zero

\* C5: iterativelyDeformPolygon(P, r, n) is deformPolygon applied n times in
\* sequence with the same random draws, and P itself for n <= 0.
C5_IterativeIsRepeatedDeform ==
  call = "iterativelyDeformPolygon" =>
    LET passes == DeformTimes(args.polygon, args.radius, args.iterations, args.seed)
    IN /\ ret = passes.value
       /\ seed = passes.seed
       /\ args.iterations <= 0 => (ret = args.polygon /\ seed = args.seed)

\* C5 witness: two passes were applied to a polygon with points.
C5_Witness ==
  /\ call = "iterativelyDeformPolygon"
  /\ args.iterations = 2
  /\ Len(args.polygon) > 0
  /\ Len(ret) > Len(args.polygon)

\* C6: a painting cycle hands exactly numberOfLayers polygons to the renderer
\* before start() begins the next cycle (the frame counter falls only then).
C6_LayerBudget ==
  [][iteration' < iteration => iteration = numberOfLayers]_vars

\* C7: once start() has been called a scheduled callback is always pending.
C7_CallbackAlwaysPending ==
  pc # "main" => pc = "waiting"

\* C8: for a polygon with points drawPolygon makes, on an acquired surface,
\* beginPath, moveTo the first point, lineTo every remaining point in order,
\* closePath, the fill color, fill; for an empty polygon, or without a
\* surface, it makes no call.
C8_DrawProtocol ==
  call = "drawPolygon" =>
    LET p == args.polygon
        n == Len(p)
    IN IF n = 0 \/ canvas # "canvas" \/ ~context
       THEN calls = <<>>
       ELSE /\ Len(calls) = n + 4
            /\ calls[1] = [op |-> "beginPath"]
            /\ calls[2] = [op |-> "moveTo", x |-> p[1].x, y |-> p[1].y]
            /\ \A i \in 2 .. n : calls[i + 1] = [op |-> "lineTo", x |-> p[i].x, y |-> p[i].y]
            /\ calls[n + 2] = [op |-> "closePath"]
            /\ calls[n + 3] = [op |-> "fillStyle", color |-> args.color]
            /\ calls[n + 4] = [op |-> "fill"]

\* C8 witness: a polygon of at least three points was drawn on a surface.
C8_Witness ==
  /\ call = "drawPolygon"
  /\ context
  /\ Len(args.polygon) >= 3
  /\ Len(calls) > 0

\* C9: every point of a polygon produced by createPolygon and deformPolygon
\* passes has variance >= 0.
C9_VarianceNonNegative ==
  ReturnedPolygon =>
    \A i \in 1 .. Len(ret) : Ge0(ret[i].variance)

\* C10: the u1 that gaussianRandom passes to Math.log is never 0, and the
\* sample is finite.
C10_LogArgumentNeverZero ==
  call = "gaussianRandom" =>
    /\ RandomValue(args.seed) # Zero
    /\ IsFinite(ret)

====
